---- MODULE Spec2Model ----
(***************************************************************************)
(* The collection cycle of the Postgres collector                          *)
(* (modules/postgres/collect.go).                                          *)
(*                                                                         *)
(* One Collect step is one call of Postgres.collect(): it is               *)
(* synchronous and single threaded, so the whole call is one atomic step.  *)
(* The database server is the environment: its state is the variable       *)
(* `server`, and the outcome of every query of a cycle (which stage fails, *)
(* if any) is an input of the step.  The variables calls, err, mx, mxNil   *)
(* and notified record what the last cycle did and returned.               *)
(***************************************************************************)
EXTENDS Integers, Sequences, FiniteSets, TLC

\* ------------------------------------------------------------------ bounds
\* Largest clock reading of a behaviour.
MaxNow == 2
\* Largest number of result rows a failing collectRows has assigned.
MaxFailRows == 1
\* Largest number of WAL senders (rows of pg_stat_replication) on the server.
MaxSenders == 2
\* Largest number of rows the catalog query answers.
MaxCatalogRows == 2

\* ------------------------------------------------------- texts and parsing
\* Query results arrive as text.  The numerals the model's server can send,
\* and a few texts that are not integers.
Numerals == {"0", "3", "7", "100", "90600", "100000"}
Texts == Numerals \cup {"", "x", "1.9"}

IntOf(s) ==
    CASE s = "0" -> 0
      [] s = "3" -> 3
      [] s = "7" -> 7
      [] s = "100" -> 100
      [] s = "90600" -> 90600
      [] s = "100000" -> 100000
      [] OTHER -> 0

\* strconv.ParseInt(s, 10, 64) and strconv.Atoi(s): the value and whether err
\* is nil.  The value is 0 when the text is not an integer.
ParseInt(s) == [v |-> IF s \in Numerals THEN IntOf(s) ELSE 0, ok |-> s \in Numerals]

\* strconv.ParseFloat(s, 64) followed by int64(v): truncation towards zero.
ParseFloatTrunc(s) ==
    IF s \in Numerals THEN IntOf(s) ELSE IF s = "1.9" THEN 1 ELSE 0

\* safeParseInt that answers (0 - 1) for a text that is not an integer.
safeParseIntOrMinusOne(s) == IF ParseInt(s).ok THEN ParseInt(s).v ELSE 0 - 1

\* v, _ := strconv.ParseInt(s, 10, 64); return v
safeParseInt(s) == ParseInt(s).v

\* ------------------------------------------------------------------- time
\* time.Time{}: the value of the three xxxTime fields before their first
\* refresh.  now.Sub(time.Time{}) saturates at the largest Duration (here the
\* largest integer of the model checker).
ZeroTime == 0 - 1
MaxDuration == 2147483647
Sub(t, u) == IF u = ZeroTime THEN MaxDuration ELSE t - u

\* The configured intervals p.recheckSettingsEvery, p.relistDatabaseEvery and
\* p.relistStandbyEvery, in clock ticks.
recheckSettingsEvery == 1
relistDatabaseEvery == 1
relistStandbyEvery == 1

\* ----------------------------------------------------------------- server
StandbyNames == {"a", "b"}
DatabaseNames == {"db1"}

\* The lists without repetition over a set of names.
RECURSIVE ListsOf(_)
ListsOf(S) ==
    IF S = {} THEN {<< >>}
    ELSE {<< >>} \cup UNION {{<<x>> \o l : l \in ListsOf(S \ {x})} : x \in S}

Range(l) == {l[i] : i \in 1..Len(l)}

\* The sequences over S of length at most n.
RECURSIVE SeqsUpTo(_, _)
SeqsUpTo(S, n) ==
    IF n = 0 THEN {<< >>}
    ELSE LET shorter == SeqsUpTo(S, n - 1)
         IN shorter \cup {Append(l, x) : l \in shorter, x \in S}

VersionTexts == {"90600", "100000"}
LoadTexts == {"3", "7"}

\* A cell of a result row as rows.Scan leaves it in an sql.NullString: a text,
\* or NULL.
NullString(text) == [String |-> text, Valid |-> TRUE]
Null == [String |-> "", Valid |-> FALSE]

\* The cells a value column may hold: numerals, the empty text, a text that is
\* not a number, NULL.
CellValues == {NullString("7"), NullString("3"), NullString(""), NullString("x"), Null}

\* The rows of the catalog query: a relation kind, the count and the size of
\* the relations of that kind.
DefaultCatalog ==
    <<[relkind |-> "r", count |-> NullString("7"), size |-> NullString("100")],
      [relkind |-> "i", count |-> NullString("3"), size |-> NullString("")]>>

\* What the server would answer to the queries of a cycle: its version,
\* max_connections, its databases, the application name of each of its WAL
\* senders (a standby application may have several), the text every
\* counter query answers, the rows of the catalog query, and the value cells
\* of the rows of the other row queries (cells[i] is the value of row i; the
\* rows after the last cell answer load).
ServerStates ==
    [version : VersionTexts,
     maxConn : {"100"},
     dbs : ListsOf(DatabaseNames),
     apps : SeqsUpTo(StandbyNames, MaxSenders),
     uptime : {"1.9"},
     load : LoadTexts,
     catalog : {DefaultCatalog},
     cells : {<< >>}]

\* The value cell of row i of a row query.
ValueCell(srv, i) ==
    IF i <= Len(srv.cells) THEN srv.cells[i] ELSE NullString(srv.load)

\* ------------------------------------------------------------- the state
VARIABLES
    db,                   \* p.db: NilDB or OpenDB
    serverVersion,        \* p.serverVersion
    recheckSettingsTime,  \* p.recheckSettingsTime
    relistDatabaseTime,   \* p.relistDatabaseTime
    relistStandbyTime,    \* p.relistStandbyTime
    maxConnections,       \* p.maxConnections
    databases,            \* p.databases
    standbyApps,          \* p.standbyApps
    charts,               \* standby applications that have charts
    handles,              \* sql.DB handles opened and not closed
    clock,                \* the last reading of time.Now()
    server,               \* the server's state
    calls,                \* the last cycle: what it called, in order
    err,                  \* the last cycle: the error returned, NoErr for nil
    mx,                   \* the last cycle: the snapshot returned
    mxNil,                \* the last cycle: whether the snapshot is nil
    notified,             \* the last cycle: notifications to the charts
    fetched,              \* the last cycle: the standby list fetched, if any
    churn,                \* observer of the standby lists fetched so far
    streak                \* observer of the latest cycles, see StreakNext

vars == <<db, serverVersion, recheckSettingsTime, relistDatabaseTime,
          relistStandbyTime, maxConnections, databases, standbyApps, charts,
          handles, clock, server, calls, err, mx, mxNil, notified, fetched,
          churn, streak>>

NilDB == "nil"
OpenDB == "open"
NoErr == "nil"
EmptyMap == [k \in {} |-> 0]

\* m[k] = v of a Go map
Put(m, k, v) == (k :> v) @@ m
Get(m, k) == IF k \in DOMAIN m THEN m[k] ELSE 0

\* ------------------------------------------------- the inputs of a cycle
\* What a cycle calls, in the order of collect().
Stages ==
    <<"open", "version", "settings", "databases", "standby", "connections",
      "checkpoints", "uptime", "txid", "wal_writes", "wal_files",
      "wal_archive", "catalog", "autovacuum", "standby_delta", "standby_lag",
      "db_stats", "db_conflicts", "db_locks">>

\* The stages that read their result with collectRows.
RowStages ==
    {"standby", "txid", "wal_files", "wal_archive", "catalog", "autovacuum",
     "standby_delta", "standby_lag"}

\* The call that fails in a cycle, if it is reached: "open" is sql.Open,
\* "ping" is db.PingContext, the others are the queries of the stages.
FailPoints == Range(Stages) \cup {"ping", "none"}

\* The orders in which Go may iterate over the map `collected`: every order
\* of the names.  With fewer than two tracked names at most one name can be
\* removed, and one order stands for all.
AllOrders == {l \in ListsOf(StandbyNames) : Len(l) = Cardinality(StandbyNames)}
Orders(tracked) ==
    IF Cardinality(Range(tracked)) < 2 THEN {CHOOSE l \in AllOrders : TRUE}
    ELSE AllOrders

\* For a failing stage read with collectRows: the number of rows assigned
\* before it fails, (0 - 1) when the query itself fails.
FailRows(f) == IF f \in RowStages THEN (0 - 1)..MaxFailRows ELSE {0 - 1}

\* The inputs of one cycle: the clock reading, the server's state, the call
\* that fails, the rows assigned before it fails, and the iteration order.
Inputs(nows, srv, fails, tracked) ==
    {[now |-> n, srv |-> srv, fail |-> fk[1], failRows |-> fk[2], order |-> o] :
        n \in nows,
        fk \in UNION {{<<f, k>> : k \in FailRows(f)} : f \in fails},
        o \in Orders(tracked)}

\* The state of a cycle in progress: the fields of p, and what the cycle has
\* called, notified and built so far.  done: collect() has returned.
Begin(p) ==
    [db |-> p.db, serverVersion |-> p.serverVersion,
     recheckSettingsTime |-> p.recheckSettingsTime,
     relistDatabaseTime |-> p.relistDatabaseTime,
     relistStandbyTime |-> p.relistStandbyTime,
     maxConnections |-> p.maxConnections,
     databases |-> p.databases, standbyApps |-> p.standbyApps,
     charts |-> p.charts, handles |-> p.handles,
     calls |-> << >>, err |-> NoErr, mx |-> EmptyMap, mxNil |-> TRUE,
     notified |-> << >>, fetched |-> << >>, done |-> FALSE]

\* The message of the error collect() returns when a call fails.
ErrorOf(point) ==
    CASE point = "open" -> "error on opening a connection with the Postgres database"
      [] point = "ping" -> "error on pinging the Postgres database"
      [] point = "version" -> "querying server version error"
      [] point = "settings" -> "querying settings max connections error"
      [] point = "databases" -> "querying database list error"
      [] point = "standby" -> "querying standby app list error"
      [] point = "connections" -> "querying server connections error"
      [] point = "checkpoints" -> "querying database conflicts error"
      [] point = "uptime" -> "querying server uptime error"
      [] point = "txid" -> "querying txid wraparound error"
      [] point = "wal_writes" -> "querying wal writes error"
      [] point = "wal_files" -> "querying wal files error"
      [] point = "wal_archive" -> "querying wal archive files error"
      [] point = "catalog" -> "querying catalog relations error"
      [] point = "autovacuum" -> "querying autovacuum workers error"
      [] point = "standby_delta" -> "querying replication standby app wal delta error"
      [] point = "standby_lag" -> "querying replication standby app wal lag error"
      [] point = "db_stats" -> "querying database stats error"
      [] point = "db_conflicts" -> "querying database conflicts error"
      [] point = "db_locks" -> "querying database locks error"

Called(c, stage) == [c EXCEPT !.calls = Append(@, stage)]

\* ReturnErr that also tears the connection down.
ReturnErrDisconnect(c, msg) ==
    [c EXCEPT !.err = msg, !.done = TRUE, !.db = NilDB, !.handles = 0]

\* return nil, err  (before mx is made)  and  return mx, err  (after).
ReturnErr(c, msg) == [c EXCEPT !.err = msg, !.done = TRUE]

\* ------------------------------------------------------------ connection
\* openConnection without db.Close() after a failed ping.
openConnectionNoClose(c, in) ==
    LET c1 == Called(c, "open")
    IN IF in.fail = "open" THEN ReturnErr(c1, ErrorOf("open"))
       ELSE IF in.fail = "ping"
       THEN ReturnErr([c1 EXCEPT !.handles = @ + 1], ErrorOf("ping"))
       ELSE [c1 EXCEPT !.handles = @ + 1, !.db = OpenDB]

openConnection(c, in) ==
    LET c1 == Called(c, "open")
    IN IF in.fail = "open"
       THEN \* sql.Open failed: there is no handle
            ReturnErr(c1, ErrorOf("open"))
       ELSE IF in.fail = "ping"
       THEN \* the handle is opened, the ping fails, db.Close()
            ReturnErr([c1 EXCEPT !.handles = (@ + 1) - 1], ErrorOf("ping"))
       ELSE [c1 EXCEPT !.handles = @ + 1, !.db = OpenDB]

\* ---------------------------------------------------------------- version
queryServerVersion(in) ==
    IF in.fail = "version" THEN [v |-> 0, ok |-> FALSE]
    ELSE ParseInt(in.srv.version)

querySettingsMaxConnections(in) ==
    IF in.fail = "settings" THEN [v |-> 0, ok |-> FALSE]
    ELSE ParseInt(in.srv.maxConn)

\* ------------------------------------------------------------- collectRows
\* A result set is a sequence of rows, a row a sequence of columns
\* [name, value], a value an sql.NullString [String, Valid].
Col(name, text) == [name |-> name, value |-> NullString(text)]
Cell(name, ns) == [name |-> name, value |-> ns]

valueToString(v) == IF ~v.Valid THEN "" ELSE v.String

RECURSIVE Flatten(_)
Flatten(rows) ==
    IF rows = << >> THEN << >>
    ELSE [i \in 1..Len(Head(rows)) |->
             <<Head(rows)[i].name, valueToString(Head(rows)[i].value)>>]
         \o Flatten(Tail(rows))

\* collectRows(rows, assign): the calls assign(column, value) it makes, in
\* order, and whether it returns nil.  failRows < 0: it does not fail.
\* Otherwise rows.Columns() fails, or rows.Scan fails on row failRows + 1:
\* the rows before it have been assigned.
collectRows(rows, failRows) ==
    IF failRows < 0 THEN [assigns |-> Flatten(rows), ok |-> TRUE]
    ELSE IF failRows < Len(rows)
         THEN [assigns |-> Flatten(SubSeq(rows, 1, failRows)), ok |-> FALSE]
         ELSE [assigns |-> << >>, ok |-> FALSE]

\* A query read with collectRows: QueryContext fails (no rows are read), or
\* collectRows fails part way, or neither.
QueryFails(in, stage) == in.fail = stage /\ in.failRows < 0
ScanFails(in, stage) == IF in.fail = stage /\ in.failRows >= 0 THEN in.failRows ELSE 0 - 1

\* ----------------------------------------------------------- entity lists
\* queryDatabaseList: the names of the server's databases.
queryDatabaseList(in) ==
    IF in.fail = "databases" THEN [dbs |-> << >>, ok |-> FALSE]
    ELSE [dbs |-> in.srv.dbs, ok |-> TRUE]

\* collectDatabaseList: the tracked set is replaced by the list fetched.
collectDatabaseList(c, dbs) == [c EXCEPT !.databases = dbs]

StandbyRows(srv) ==
    [i \in 1..Len(srv.apps) |-> <<Col("application_name", srv.apps[i])>>]

\* The loop of queryStandbyAppList over the assign calls: a name is appended
\* the first time it is seen.
RECURSIVE AppendUnseen(_, _, _)
AppendUnseen(assigns, seen, apps) ==
    IF assigns = << >> THEN apps
    ELSE LET column == Head(assigns)[1]
             value == Head(assigns)[2]
         IN IF column = "application_name" /\ value \notin seen
            THEN AppendUnseen(Tail(assigns), seen \cup {value}, Append(apps, value))
            ELSE AppendUnseen(Tail(assigns), seen, apps)

queryStandbyAppList(in) ==
    IF QueryFails(in, "standby") THEN [apps |-> << >>, ok |-> FALSE]
    ELSE LET r == collectRows(StandbyRows(in.srv), ScanFails(in, "standby"))
         IN IF ~r.ok THEN [apps |-> << >>, ok |-> FALSE]
            ELSE [apps |-> AppendUnseen(r.assigns, {}, << >>), ok |-> TRUE]

\* The charts of the standby applications.
Added(app) == <<"Added", app>>
Removed(app) == <<"Removed", app>>

addNewReplicationStandbyAppCharts(c, app) ==
    [c EXCEPT !.charts = @ \cup {app}, !.notified = Append(@, Added(app))]

removeReplicationStandbyAppCharts(c, app) ==
    [c EXCEPT !.charts = @ \ {app}, !.notified = Append(@, Removed(app))]

\* The first loop of collectStandbyAppList: over apps, in order.
RECURSIVE AddLoop(_, _, _)
AddLoop(c, apps, collected) ==
    IF apps = << >> THEN [c |-> c, collected |-> collected]
    ELSE IF Head(apps) \notin collected
         THEN AddLoop(addNewReplicationStandbyAppCharts(c, Head(apps)),
                      Tail(apps), collected \cup {Head(apps)})
         ELSE AddLoop(c, Tail(apps), collected)

\* The second loop: over the map collected, in the order Go iterates it.
RECURSIVE RemoveLoop(_, _, _, _)
RemoveLoop(c, order, collected, seen) ==
    IF order = << >> THEN c
    ELSE IF Head(order) \in collected /\ Head(order) \notin seen
         THEN RemoveLoop(removeReplicationStandbyAppCharts(c, Head(order)),
                         Tail(order), collected, seen)
         ELSE RemoveLoop(c, Tail(order), collected, seen)

\* collectStandbyAppList that assigns p.standbyApps before it copies it into
\* collected.
collectStandbyAppListAssignFirst(c, apps, order) ==
    IF Len(apps) = 0 THEN c
    ELSE LET c1 == [c EXCEPT !.standbyApps = apps]
             collected == Range(c1.standbyApps)
             a == AddLoop(c1, apps, collected)
         IN RemoveLoop(a.c, order, a.collected, Range(apps))

collectStandbyAppList(c, apps, order) ==
    IF Len(apps) = 0 THEN c
    ELSE LET collected == Range(c.standbyApps)
             c1 == [c EXCEPT !.standbyApps = apps]
             a == AddLoop(c1, apps, collected)
         IN RemoveLoop(a.c, order, a.collected, Range(apps))

\* --------------------------------------------------------- metric stages
\* The result of a collector: the snapshot as it leaves it, and whether it
\* returns nil.  The snapshot is a Go map, written in place, so what a failing
\* collector wrote before it failed stays in it.
Ok(m) == [mx |-> m, ok |-> TRUE]
Failed(m) == [mx |-> m, ok |-> FALSE]

\* assign of the plain collectors: mx[column] = safeParseInt(value)
RECURSIVE AssignPlain(_, _)
AssignPlain(m, assigns) ==
    IF assigns = << >> THEN m
    ELSE AssignPlain(Put(m, <<Head(assigns)[1]>>, safeParseInt(Head(assigns)[2])),
                     Tail(assigns))

PlainRows(m, rows, in, stage) ==
    IF QueryFails(in, stage) THEN Failed(m)
    ELSE LET r == collectRows(rows, ScanFails(in, stage))
         IN [mx |-> AssignPlain(m, r.assigns), ok |-> r.ok]

collectConnection(m, in) ==
    IF in.fail = "connections" THEN Failed(m)
    ELSE Ok(Put(m, <<"server_connections_used">>, safeParseInt(in.srv.load)))

collectCheckpoints(m, in) ==
    IF in.fail = "checkpoints" THEN Failed(m)
    ELSE Ok(Put(m, <<"checkpoints_timed">>, safeParseInt(in.srv.load)))

collectUptime(m, in) ==
    IF in.fail = "uptime" THEN Failed(m)
    ELSE Ok(Put(m, <<"server_uptime">>, ParseFloatTrunc(in.srv.uptime)))

TXIDRows(srv) == << <<Cell("percent_towards_wraparound", ValueCell(srv, 1))>> >>

collectTXIDWraparound(m, in) == PlainRows(m, TXIDRows(in.srv), in, "txid")

collectWALWrites(m, in) ==
    IF in.fail = "wal_writes" THEN Failed(m)
    ELSE Ok(Put(m, <<"wal_writes">>, IntOf(in.srv.load)))

WALFilesRows(srv) ==
    << <<Cell("wal_recycled_files_count", ValueCell(srv, 1)),
         Cell("wal_written_files_count", ValueCell(srv, 1))>> >>

collectWALFiles(m, in) == PlainRows(m, WALFilesRows(in.srv), in, "wal_files")

WALArchiveRows(srv) ==
    << <<Cell("wal_archive_files_ready_count", ValueCell(srv, 1))>> >>

collectWALArchiveFiles(m, in) ==
    PlainRows(m, WALArchiveRows(in.srv), in, "wal_archive")

\* The relation kinds of pg_class, in the order collectCatalog seeds them.
RelKinds == <<"r", "i", "S", "t", "v", "m", "c", "f", "p", "I">>

CatalogRows(srv) ==
    [i \in 1..Len(srv.catalog) |->
        <<Col("relkind", srv.catalog[i].relkind),
          Cell("count", srv.catalog[i].count),
          Cell("size", srv.catalog[i].size)>>]

RECURSIVE SeedRelKinds(_, _)
SeedRelKinds(m, kinds) ==
    IF kinds = << >> THEN m
    ELSE SeedRelKinds(
             Put(Put(m, <<"catalog_relkind_", Head(kinds), "_", "count">>, 0),
                 <<"catalog_relkind_", Head(kinds), "_", "size">>, 0),
             Tail(kinds))

\* for _, v := range []string{...} { mx[..._count] = 0; mx[..._size] = 0 }
RelKindZeros == SeedRelKinds(EmptyMap, RelKinds)

RECURSIVE AssignCatalog(_, _, _)
AssignCatalog(m, kind, assigns) ==
    IF assigns = << >> THEN m
    ELSE LET column == Head(assigns)[1]
             value == Head(assigns)[2]
         IN IF column = "relkind"
            THEN AssignCatalog(m, value, Tail(assigns))
            ELSE AssignCatalog(
                     Put(m, <<"catalog_relkind_", kind, "_", column>>, safeParseInt(value)),
                     kind, Tail(assigns))

\* collectCatalog without the loop that seeds the ten kinds with zeros.
collectCatalogNoSeed(m, in) ==
    IF QueryFails(in, "catalog") THEN Failed(m)
    ELSE LET r == collectRows(CatalogRows(in.srv), ScanFails(in, "catalog"))
         IN [mx |-> AssignCatalog(m, "", r.assigns), ok |-> r.ok]

collectCatalog(m, in) ==
    IF QueryFails(in, "catalog") THEN Failed(m)
    ELSE LET seeded == RelKindZeros @@ m
             r == collectRows(CatalogRows(in.srv), ScanFails(in, "catalog"))
         IN [mx |-> AssignCatalog(seeded, "", r.assigns), ok |-> r.ok]

AutovacuumRows(srv) == << <<Cell("autovacuum_analyze", ValueCell(srv, 1))>> >>

collectAutovacuumWorkers(m, in) ==
    PlainRows(m, AutovacuumRows(in.srv), in, "autovacuum")

\* One row of pg_stat_replication for each WAL sender.
StandbyDeltaRows(srv) ==
    [i \in 1..Len(srv.apps) |->
        <<Col("application_name", srv.apps[i]),
          Cell("sent_delta", ValueCell(srv, i))>>]

StandbyLagRows(srv) ==
    [i \in 1..Len(srv.apps) |->
        <<Col("application_name", srv.apps[i]),
          Cell("write_lag", ValueCell(srv, i))>>]

\* AssignStandby with = for +=.
RECURSIVE AssignStandbyOverwrite(_, _, _)
AssignStandbyOverwrite(m, app, assigns) ==
    IF assigns = << >> THEN m
    ELSE LET column == Head(assigns)[1]
             value == Head(assigns)[2]
             key == <<"repl_standby_app_", app, "_wal_", column>>
         IN IF column = "application_name"
            THEN AssignStandbyOverwrite(m, value, Tail(assigns))
            ELSE AssignStandbyOverwrite(Put(m, key, safeParseInt(value)),
                                        app, Tail(assigns))

\* assign of the two replication collectors: mx[key] += safeParseInt(value)
RECURSIVE AssignStandby(_, _, _)
AssignStandby(m, app, assigns) ==
    IF assigns = << >> THEN m
    ELSE LET column == Head(assigns)[1]
             value == Head(assigns)[2]
             key == <<"repl_standby_app_", app, "_wal_", column>>
         IN IF column = "application_name"
            THEN AssignStandby(m, value, Tail(assigns))
            ELSE AssignStandby(Put(m, key, Get(m, key) + safeParseInt(value)),
                               app, Tail(assigns))

collectReplicationStandbyAppWALDelta(m, in) ==
    IF QueryFails(in, "standby_delta") THEN Failed(m)
    ELSE LET r == collectRows(StandbyDeltaRows(in.srv), ScanFails(in, "standby_delta"))
         IN [mx |-> AssignStandby(m, "", r.assigns), ok |-> r.ok]

collectReplicationStandbyAppWALLag(m, in) ==
    IF QueryFails(in, "standby_lag") THEN Failed(m)
    ELSE LET r == collectRows(StandbyLagRows(in.srv), ScanFails(in, "standby_lag"))
         IN [mx |-> AssignStandby(m, "", r.assigns), ok |-> r.ok]

\* The per-database collectors: one key for each database of the server.
RECURSIVE AssignDatabases(_, _, _, _)
AssignDatabases(m, dbs, column, value) ==
    IF dbs = << >> THEN m
    ELSE AssignDatabases(Put(m, <<"db_", Head(dbs), "_", column>>, safeParseInt(value)),
                         Tail(dbs), column, value)

collectDatabaseStats(m, in) ==
    IF in.fail = "db_stats" THEN Failed(m)
    ELSE Ok(AssignDatabases(m, in.srv.dbs, "numbackends", in.srv.load))

collectDatabaseConflicts(m, in) ==
    IF in.fail = "db_conflicts" THEN Failed(m)
    ELSE Ok(AssignDatabases(m, in.srv.dbs, "confl_lock", in.srv.load))

collectDatabaseLocks(m, in) ==
    IF in.fail = "db_locks" THEN Failed(m)
    ELSE Ok(AssignDatabases(m, in.srv.dbs, "lock_count", in.srv.load))

\* ---------------------------------------------------------------- collect
\* Stale with >= for >: a window is refreshed again at exactly the interval.
StaleAtInterval(now, lastRun, every) == Sub(now, lastRun) >= every

\* isStale of a refresh window: now.Sub(lastRun) > every
Stale(now, lastRun, every) == Sub(now, lastRun) > every

\* if p.db == nil { if err := p.openConnection(); err != nil { return nil, err } }
EnsureConnection(c, in) ==
    IF c.db = NilDB THEN openConnection(c, in) ELSE c

\* EnsureServerVersion without the test of the cached version.
EnsureServerVersionAlways(c, in) ==
    IF c.done THEN c
    ELSE LET c1 == Called(c, "version")
             r == queryServerVersion(in)
         IN IF ~r.ok THEN ReturnErr(c1, ErrorOf("version"))
            ELSE [c1 EXCEPT !.serverVersion = r.v]

\* if p.serverVersion == 0 { ... }
EnsureServerVersion(c, in) ==
    IF c.done \/ c.serverVersion # 0 THEN c
    ELSE LET c1 == Called(c, "version")
             r == queryServerVersion(in)
         IN IF ~r.ok THEN ReturnErr(c1, ErrorOf("version"))
            ELSE [c1 EXCEPT !.serverVersion = r.v]

\* if now.Sub(p.recheckSettingsTime) > p.recheckSettingsEvery { ... }
RecheckSettings(c, in) ==
    IF c.done \/ ~Stale(in.now, c.recheckSettingsTime, recheckSettingsEvery) THEN c
    ELSE LET c1 == Called([c EXCEPT !.recheckSettingsTime = in.now], "settings")
             r == querySettingsMaxConnections(in)
         IN IF ~r.ok THEN ReturnErr(c1, ErrorOf("settings"))
            ELSE [c1 EXCEPT !.maxConnections = r.v]

\* RelistDatabases that records the error of the fetch and goes on.
RelistDatabasesGoOn(c, in) ==
    IF c.done \/ ~Stale(in.now, c.relistDatabaseTime, relistDatabaseEvery) THEN c
    ELSE LET c1 == Called([c EXCEPT !.relistDatabaseTime = in.now], "databases")
             r == queryDatabaseList(in)
         IN IF ~r.ok THEN [c1 EXCEPT !.err = ErrorOf("databases")]
            ELSE collectDatabaseList(c1, r.dbs)

\* if now.Sub(p.relistDatabaseTime) > p.relistDatabaseEvery { ... }
RelistDatabases(c, in) ==
    IF c.done \/ ~Stale(in.now, c.relistDatabaseTime, relistDatabaseEvery) THEN c
    ELSE LET c1 == Called([c EXCEPT !.relistDatabaseTime = in.now], "databases")
             r == queryDatabaseList(in)
         IN IF ~r.ok THEN ReturnErr(c1, ErrorOf("databases"))
            ELSE collectDatabaseList(c1, r.dbs)

\* RelistStandby that records the error of the fetch and goes on.
RelistStandbyNoReturn(c, in) ==
    IF c.done \/ ~Stale(in.now, c.relistStandbyTime, relistStandbyEvery) THEN c
    ELSE LET c1 == Called([c EXCEPT !.relistStandbyTime = in.now], "standby")
             r == queryStandbyAppList(in)
         IN IF ~r.ok THEN [c1 EXCEPT !.err = ErrorOf("standby")]
            ELSE collectStandbyAppList([c1 EXCEPT !.fetched = <<r.apps>>],
                                       r.apps, in.order)

\* if now.Sub(p.relistStandbyTime) > p.relistStandbyEvery { ... }
RelistStandby(c, in) ==
    IF c.done \/ ~Stale(in.now, c.relistStandbyTime, relistStandbyEvery) THEN c
    ELSE LET c1 == Called([c EXCEPT !.relistStandbyTime = in.now], "standby")
             r == queryStandbyAppList(in)
         IN IF ~r.ok THEN ReturnErr(c1, ErrorOf("standby"))
            ELSE collectStandbyAppList([c1 EXCEPT !.fetched = <<r.apps>>],
                                       r.apps, in.order)

\* mx := make(map[string]int64)
MakeSnapshot(c) ==
    IF c.done THEN c ELSE [c EXCEPT !.mx = EmptyMap, !.mxNil = FALSE]

\* Metric with  return nil, err  for  return mx, err.
MetricNilOnError(c, stage, r) ==
    CHOOSE c2 \in {IF x.ok THEN Called([c EXCEPT !.mx = x.mx], stage)
                   ELSE ReturnErr(Called([c EXCEPT !.mx = EmptyMap, !.mxNil = TRUE], stage),
                                  ErrorOf(stage)) :
                   x \in {r}} : TRUE

\* Metric that records the error and goes on with the next stage.
MetricGoOn(c, stage, r) ==
    CHOOSE c2 \in {IF x.ok THEN Called([c EXCEPT !.mx = x.mx], stage)
                   ELSE [Called([c EXCEPT !.mx = x.mx], stage) EXCEPT
                            !.err = ErrorOf(stage)] :
                   x \in {r}} : TRUE

\* if err := p.collectXxx(mx); err != nil { return mx, fmt.Errorf(..., err) }
Metric(c, stage, r) ==
    CHOOSE c2 \in {IF x.ok THEN Called([c EXCEPT !.mx = x.mx], stage)
                   ELSE ReturnErr(Called([c EXCEPT !.mx = x.mx], stage), ErrorOf(stage)) :
                   x \in {r}} : TRUE

\* The stages of a cycle are applied in order, each to the value the stage
\* before it left: {Stage(c, in) : c \in S} is stage applied to the one
\* element of S.
CollectCore(c, in) ==
    LET S1 == {IF s.done THEN s
               ELSE Metric(s, "connections", collectConnection(s.mx, in)) : s \in {c}}
        S2 == {IF s.done THEN s
               ELSE Metric(s, "checkpoints", collectCheckpoints(s.mx, in)) : s \in S1}
        S3 == {IF s.done THEN s
               ELSE Metric(s, "uptime", collectUptime(s.mx, in)) : s \in S2}
        S4 == {IF s.done THEN s
               ELSE Metric(s, "txid", collectTXIDWraparound(s.mx, in)) : s \in S3}
        S5 == {IF s.done THEN s
               ELSE Metric(s, "wal_writes", collectWALWrites(s.mx, in)) : s \in S4}
        S6 == {IF s.done THEN s
               ELSE Metric(s, "wal_files", collectWALFiles(s.mx, in)) : s \in S5}
        S7 == {IF s.done THEN s
               ELSE Metric(s, "wal_archive", collectWALArchiveFiles(s.mx, in)) : s \in S6}
        S8 == {IF s.done THEN s
               ELSE Metric(s, "catalog", collectCatalog(s.mx, in)) : s \in S7}
        S9 == {IF s.done THEN s
               ELSE Metric(s, "autovacuum", collectAutovacuumWorkers(s.mx, in)) : s \in S8}
    IN CHOOSE s \in S9 : TRUE

\* The version from which the WAL lag of a standby is collected.
LagMinVersion == 100000

\* CollectStandby gated on the list fetched in this cycle, not on p.standbyApps.
CollectStandbyIfFetched(c, in) ==
    IF c.done \/ c.fetched = << >> \/ ~(Len(c.fetched[1]) > 0) THEN c
    ELSE LET S1 == {Metric(c, "standby_delta",
                           collectReplicationStandbyAppWALDelta(c.mx, in))}
             S2 == {IF s.done \/ ~(s.serverVersion >= LagMinVersion) THEN s
                    ELSE Metric(s, "standby_lag",
                                collectReplicationStandbyAppWALLag(s.mx, in)) :
                    s \in S1}
         IN CHOOSE s \in S2 : TRUE

\* CollectStandby without the test of the server version before the lag query.
CollectStandbyLagUngated(c, in) ==
    IF c.done \/ ~(Len(c.standbyApps) > 0) THEN c
    ELSE LET S1 == {Metric(c, "standby_delta",
                           collectReplicationStandbyAppWALDelta(c.mx, in))}
             S2 == {IF s.done THEN s
                    ELSE Metric(s, "standby_lag",
                                collectReplicationStandbyAppWALLag(s.mx, in)) :
                    s \in S1}
         IN CHOOSE s \in S2 : TRUE

\* if len(p.standbyApps) > 0 { ... }
CollectStandby(c, in) ==
    IF c.done \/ ~(Len(c.standbyApps) > 0) THEN c
    ELSE LET S1 == {Metric(c, "standby_delta",
                           collectReplicationStandbyAppWALDelta(c.mx, in))}
             S2 == {IF s.done \/ ~(s.serverVersion >= LagMinVersion) THEN s
                    ELSE Metric(s, "standby_lag",
                                collectReplicationStandbyAppWALLag(s.mx, in)) :
                    s \in S1}
         IN CHOOSE s \in S2 : TRUE

\* if len(p.databases) > 0 { ... }
CollectDatabases(c, in) ==
    IF c.done \/ ~(Len(c.databases) > 0) THEN c
    ELSE LET S1 == {Metric(c, "db_stats", collectDatabaseStats(c.mx, in))}
             S2 == {IF s.done THEN s
                    ELSE Metric(s, "db_conflicts", collectDatabaseConflicts(s.mx, in)) : s \in S1}
             S3 == {IF s.done THEN s
                    ELSE Metric(s, "db_locks", collectDatabaseLocks(s.mx, in)) : s \in S2}
         IN CHOOSE s \in S3 : TRUE

\* collect(): the cycle from the fields p of the collector, with inputs in.
collect(p, in) ==
    LET C1 == {EnsureConnection(c, in) : c \in {Begin(p)}}
        C2 == {EnsureServerVersion(c, in) : c \in C1}
        C3 == {RecheckSettings(c, in) : c \in C2}
        C4 == {RelistDatabases(c, in) : c \in C3}
        C5 == {RelistStandby(c, in) : c \in C4}
        C6 == {MakeSnapshot(c) : c \in C5}
        C7 == {CollectCore(c, in) : c \in C6}
        C8 == {CollectStandby(c, in) : c \in C7}
        C9 == {CollectDatabases(c, in) : c \in C8}
    IN CHOOSE c \in C9 : TRUE

\* ------------------------------------------------------------- observers
\* The standby lists of the churn scenario, as sets.
ChurnLists == <<{}, {"a"}, {"a", "b"}, {}>>

\* churn.step: how many standby lists have been fetched, when they are the
\* first lists of the scenario, in order, and (0 - 1) when they are not.
\* churn.log: the notifications of the cycles that fetched them.
ChurnNext(ch, c) ==
    IF c.fetched = << >> \/ ch.step < 0 \/ ch.step = Len(ChurnLists) THEN ch
    ELSE IF Range(c.fetched[1]) = ChurnLists[ch.step + 1]
         THEN [step |-> ch.step + 1, log |-> ch.log \o c.notified]
         ELSE [step |-> 0 - 1, log |-> << >>]

\* streak: how many of the latest cycles, up to two, returned no error and
\* ran one after the other with no change of the server between them.
StreakNext(n, c) ==
    IF c.err # NoErr THEN 0 ELSE IF n < 2 THEN n + 1 ELSE 2

\* ------------------------------------------------------ the state machine
Fields ==
    [db |-> db, serverVersion |-> serverVersion,
     recheckSettingsTime |-> recheckSettingsTime,
     relistDatabaseTime |-> relistDatabaseTime,
     relistStandbyTime |-> relistStandbyTime,
     maxConnections |-> maxConnections,
     databases |-> databases, standbyApps |-> standbyApps,
     charts |-> charts, handles |-> handles]

\* The collector as New() leaves it, facing a server in one of the states S.
Start(S) ==
    /\ db = NilDB
    /\ serverVersion = 0
    /\ recheckSettingsTime = ZeroTime
    /\ relistDatabaseTime = ZeroTime
    /\ relistStandbyTime = ZeroTime
    /\ maxConnections = 0
    /\ databases = << >>
    /\ standbyApps = << >>
    /\ charts = {}
    /\ handles = 0
    /\ clock = 0
    /\ server \in S
    /\ calls = << >>
    /\ err = NoErr
    /\ mx = EmptyMap
    /\ mxNil = TRUE
    /\ notified = << >>
    /\ fetched = << >>
    /\ churn = [step |-> 0, log |-> << >>]
    /\ streak = 0

\* One cycle: the caller calls collect() when the clock reads one of nows, and
\* the call that fails, if any, is one of fails.
Cycle(nows, fails) ==
    \E in \in Inputs(nows, server, fails, standbyApps) :
        \E c \in {collect(Fields, in)} :
           /\ db' = c.db
           /\ serverVersion' = c.serverVersion
           /\ recheckSettingsTime' = c.recheckSettingsTime
           /\ relistDatabaseTime' = c.relistDatabaseTime
           /\ relistStandbyTime' = c.relistStandbyTime
           /\ maxConnections' = c.maxConnections
           /\ databases' = c.databases
           /\ standbyApps' = c.standbyApps
           /\ charts' = c.charts
           /\ handles' = c.handles
           /\ clock' = in.now
           /\ calls' = c.calls
           /\ err' = c.err
           /\ mx' = c.mx
           /\ mxNil' = c.mxNil
           /\ notified' = c.notified
           /\ fetched' = c.fetched
           /\ churn' = ChurnNext(churn, c)
           /\ streak' = StreakNext(streak, c)
           /\ UNCHANGED server

\* The server's state changes between two cycles, to a state of S.
Change(S) ==
    /\ \E s \in S : s # server /\ server' = s
    /\ streak' = 0
    /\ UNCHANGED <<db, serverVersion, recheckSettingsTime, relistDatabaseTime,
                   relistStandbyTime, maxConnections, databases, standbyApps,
                   charts, handles, clock, calls, err, mx, mxNil, notified,
                   fetched, churn>>

\* ------------------------------------------------------ specifications
\* The state space of all servers, clocks and failures together is too large
\* to enumerate, so the collector is run in five environments.  Each runs
\* whole cycles of the same collect(); they differ in what the server, the
\* clock and the failures may do.

\* (1) Scheduling.  The server does not change; the clock takes every reading
\* up to MaxNow; any call up to the standby list may fail, and one collector.
SteadyServers ==
    {s \in ServerStates : s.dbs = <<"db1">> /\ s.load = "7" /\ Len(s.apps) <= 1
                          /\ s.apps # <<"b">>}
EarlyFails ==
    {"open", "ping", "version", "settings", "databases", "standby", "wal_files",
     "none"}

Init == Start(SteadyServers)
Collect == Cycle(clock..MaxNow, EarlyFails)
Next == Collect
Spec == Init /\ [][Next]_vars

\* (2) Entities.  The standby applications of the server come and go; the
\* caller calls every Cadence ticks, or again at once, up to Horizon; the
\* standby list query may fail.
Cadence == 2
Horizon == 6
EntityServers ==
    {s \in ServerStates : s.version = "100000" /\ s.dbs = <<"db1">> /\ s.load = "7"}
EntityFails == {"standby", "none"}

InitEntities == Start(EntityServers)
CollectEntities ==
    Cycle({n \in {clock, clock + Cadence} : n <= Horizon}, EntityFails)
ChangeEntities == Change(EntityServers)
NextEntities == CollectEntities \/ ChangeEntities
SpecEntities == InitEntities /\ [][NextEntities]_vars

\* (3) Metrics.  Every call may fail; the server is in any state with at most
\* one standby application and does not change; the clock stands still, so
\* each window is refreshed once.
MetricServers == {s \in ServerStates : Cardinality(Range(s.apps)) <= 1}

InitMetrics == Start(MetricServers)
CollectMetrics == Cycle({clock}, FailPoints)
NextMetrics == CollectMetrics
SpecMetrics == InitMetrics /\ [][NextMetrics]_vars

\* (4) Healthy.  No call fails; the server changes in every respect, with at
\* most one standby application; the caller calls as in (2).
HealthyServers == {s \in ServerStates : Len(s.apps) <= 1 /\ s.apps # <<"b">>}

InitHealthy == Start(HealthyServers)
CollectHealthy ==
    Cycle({n \in {clock, clock + Cadence} : n <= Horizon}, {"none"})
ChangeHealthy == Change(HealthyServers)
NextHealthy == CollectHealthy \/ ChangeHealthy
SpecHealthy == InitHealthy /\ [][NextHealthy]_vars

\* (5) Rows.  No call fails and the clock stands still; the server answers
\* the row queries with any rows: a catalog of up to MaxCatalogRows rows of any
\* kinds and cells, or WAL senders with any value cells.
CatalogKinds == {"r", "I"}
CatalogResults ==
    SeqsUpTo([relkind : CatalogKinds, count : CellValues,
              size : {NullString("100"), Null}], MaxCatalogRows)
ExpansionServers ==
    [version : {"100000"}, maxConn : {"100"}, dbs : {<< >>}, apps : {<< >>},
     uptime : {"1.9"}, load : {"7"}, catalog : CatalogResults, cells : {<< >>}]
    \cup
    [version : VersionTexts, maxConn : {"100"}, dbs : {<< >>},
     apps : SeqsUpTo(StandbyNames, MaxSenders), uptime : {"1.9"}, load : {"7"},
     catalog : {DefaultCatalog}, cells : SeqsUpTo(CellValues, MaxSenders)]

InitExpansion == Start(ExpansionServers)
CollectExpansion == Cycle({clock}, {"none"})
NextExpansion == CollectExpansion
SpecExpansion == InitExpansion /\ [][NextExpansion]_vars

\* ------------------------------------------------------------ the claims
Ran == calls # << >>
Last(l) == l[Len(l)]
Count(l, x) == Cardinality({i \in 1..Len(l) : l[i] = x})

MetricStages ==
    {"connections", "checkpoints", "uptime", "txid", "wal_writes", "wal_files",
     "wal_archive", "catalog", "autovacuum", "standby_delta", "standby_lag",
     "db_stats", "db_conflicts", "db_locks"}

\* The collector of a metric stage.
Collector(stage, m, in) ==
    CASE stage = "connections" -> collectConnection(m, in)
      [] stage = "checkpoints" -> collectCheckpoints(m, in)
      [] stage = "uptime" -> collectUptime(m, in)
      [] stage = "txid" -> collectTXIDWraparound(m, in)
      [] stage = "wal_writes" -> collectWALWrites(m, in)
      [] stage = "wal_files" -> collectWALFiles(m, in)
      [] stage = "wal_archive" -> collectWALArchiveFiles(m, in)
      [] stage = "catalog" -> collectCatalog(m, in)
      [] stage = "autovacuum" -> collectAutovacuumWorkers(m, in)
      [] stage = "standby_delta" -> collectReplicationStandbyAppWALDelta(m, in)
      [] stage = "standby_lag" -> collectReplicationStandbyAppWALLag(m, in)
      [] stage = "db_stats" -> collectDatabaseStats(m, in)
      [] stage = "db_conflicts" -> collectDatabaseConflicts(m, in)
      [] stage = "db_locks" -> collectDatabaseLocks(m, in)

\* The keys a stage writes when its query succeeds on the server srv.
KeysOf(stage, srv) ==
    DOMAIN Collector(stage, EmptyMap,
                     [now |-> 0, srv |-> srv, fail |-> "none",
                      failRows |-> 0 - 1, order |-> << >>]).mx

\* C1 (as claimed).  Entity churn: when the successive standby lists fetched
\* are {}, {a}, {a,b}, {}, the charts are notified of exactly Added(a),
\* Added(b), Removed(a), Removed(b), in that order.
C1_ChurnNotifications ==
    churn.step = Len(ChurnLists) =>
        churn.log = <<Added("a"), Added("b"), Removed("a"), Removed("b")>>

\* C2 (as claimed).  The lastRun of a refresh window is updated only after its
\* fetch succeeded: a cycle in which the fetch fails leaves lastRun unchanged,
\* and the next cycle that reaches the window attempts the fetch again.
C2_LastRunOnlyAfterSuccess ==
    [][/\ err' = ErrorOf("settings") => recheckSettingsTime' = recheckSettingsTime
       /\ err' = ErrorOf("databases") => relistDatabaseTime' = relistDatabaseTime
       /\ err' = ErrorOf("standby") => relistStandbyTime' = relistStandbyTime
       /\ (err = ErrorOf("settings") /\ err' = NoErr) => "settings" \in Range(calls')
       /\ (err = ErrorOf("databases") /\ err' = NoErr) => "databases" \in Range(calls')
       /\ (err = ErrorOf("standby") /\ err' = NoErr) => "standby" \in Range(calls')
      ]_vars

\* The errors after which a cycle has not reached the settings window, the
\* database window, the standby window.
BeforeSettings == {ErrorOf("open"), ErrorOf("ping"), ErrorOf("version")}
BeforeDatabases == BeforeSettings \cup {ErrorOf("settings")}
BeforeStandby == BeforeDatabases \cup {ErrorOf("databases")}

\* C3.  A cycle that reaches a refresh window invokes its fetch if and only if
\* now - lastRun > interval, strictly, and at most once; lastRun is the clock
\* reading of the last cycle that invoked the fetch.  So the cycles whose clock
\* readings lie within the interval of a refresh do not fetch again.
C3_RefreshWindows ==
    [][/\ \A w \in {"settings", "databases", "standby"} : Count(calls', w) <= 1
       /\ err' \notin BeforeSettings =>
            ("settings" \in Range(calls')
                <=> Sub(clock', recheckSettingsTime) > recheckSettingsEvery)
       /\ err' \notin BeforeDatabases =>
            ("databases" \in Range(calls')
                <=> Sub(clock', relistDatabaseTime) > relistDatabaseEvery)
       /\ err' \notin BeforeStandby =>
            ("standby" \in Range(calls')
                <=> Sub(clock', relistStandbyTime) > relistStandbyEvery)
       /\ recheckSettingsTime' =
            IF "settings" \in Range(calls') THEN clock' ELSE recheckSettingsTime
       /\ relistDatabaseTime' =
            IF "databases" \in Range(calls') THEN clock' ELSE relistDatabaseTime
       /\ relistStandbyTime' =
            IF "standby" \in Range(calls') THEN clock' ELSE relistStandbyTime
      ]_vars

\* A cycle ran to its end exactly one interval after the refresh of the three
\* windows, and fetched none of them.
C3_Witness ==
    /\ Ran /\ err = NoErr
    /\ recheckSettingsTime # ZeroTime
    /\ clock - recheckSettingsTime = recheckSettingsEvery
    /\ clock - relistDatabaseTime = relistDatabaseEvery
    /\ clock - relistStandbyTime = relistStandbyEvery
    /\ Range(calls) \cap {"settings", "databases", "standby"} = {}

\* C4.  When a metric query fails, the cycle returns an error and a snapshot
\* that is not nil, holds every key of the metric stages that succeeded before
\* the failing one, and holds no key of a stage after it.
C4_PartialSnapshot ==
    (Ran /\ err # NoErr /\ Last(calls) \in MetricStages) =>
        /\ ~mxNil
        /\ \A i \in 1..(Len(calls) - 1) :
              calls[i] \in MetricStages => KeysOf(calls[i], server) \subseteq DOMAIN mx
        /\ \A st \in MetricStages \ Range(calls) :
              KeysOf(st, server) \cap DOMAIN mx = {}

\* The WAL files query failed after connections, checkpoints and uptime.
C4_Witness ==
    /\ err = ErrorOf("wal_files")
    /\ ~mxNil
    /\ {<<"server_connections_used">>, <<"checkpoints_timed">>, <<"server_uptime">>}
          \subseteq DOMAIN mx
    /\ <<"wal_archive_files_ready_count">> \notin DOMAIN mx

C6_OpenFailure ==
    [][/\ err' \in {ErrorOf("open"), ErrorOf("ping")} =>
            /\ mxNil' /\ DOMAIN mx' = {}
            /\ db' = NilDB /\ handles' = 0
            /\ calls' = <<"open">>
       /\ db = NilDB => Head(calls') = "open"
      ]_vars

\* The ping failed, and then failed again in the next cycle.
C6_Witness ==
    /\ err = ErrorOf("ping") /\ mxNil
    /\ db = NilDB /\ handles = 0
    /\ calls = <<"open">>

\* C7.  A cycle that starts with a cached server version does not query the
\* version and leaves it unchanged; the version is queried only while it is 0,
\* at most once in a cycle.
C7_VersionCached ==
    [][/\ serverVersion # 0 =>
            ("version" \notin Range(calls') /\ serverVersion' = serverVersion)
       /\ "version" \in Range(calls') => serverVersion = 0
       /\ Count(calls', "version") <= 1
      ]_vars

\* A cycle on an established connection ran without querying the version.
C7_Witness ==
    /\ Ran /\ err = NoErr /\ serverVersion # 0
    /\ Range(calls) \cap {"open", "version"} = {}

\* C8.  When the settings, database list or standby list fetch fails, the
\* cycle returns the error and a nil snapshot, and has issued no metric query.
C8_MetadataFailureAborts ==
    (Ran /\ err \in {ErrorOf("settings"), ErrorOf("databases"), ErrorOf("standby")}) =>
        /\ mxNil /\ DOMAIN mx = {}
        /\ Range(calls) \cap MetricStages = {}
        /\ ErrorOf(Last(calls)) = err

\* The standby list fetch failed after the two fetches before it.
C8_Witness ==
    /\ err = ErrorOf("standby") /\ mxNil
    /\ calls = <<"open", "version", "settings", "databases", "standby">>

\* C9 (as claimed).  After every successful fetch of the standby list the
\* tracked set is the list fetched, the empty list included.
C9_TrackedSetReplaced ==
    fetched # << >> => standbyApps = fetched[1]

\* C10 (as claimed).  Two cycles that observe the same server state and return
\* no error return the same snapshot.
C10_Determinism ==
    [][streak' = 2 => mx' = mx]_vars

\* C10 (amended).  Two cycles that observe the same server state, return no
\* error and collect with the same cached version, maxConnections and tracked
\* sets return the same snapshot.
C10_DeterminismGivenCache ==
    [][(/\ streak' = 2
        /\ serverVersion' = serverVersion
        /\ maxConnections' = maxConnections
        /\ databases' = databases
        /\ standbyApps' = standbyApps) => mx' = mx]_vars

\* Two cycles in a row collected the metrics of a tracked standby application:
\* the second did not fetch the list again.
C10_Witness ==
    /\ streak = 2 /\ fetched = << >>
    /\ standbyApps = <<"a">>
    /\ <<"repl_standby_app_", "a", "_wal_", "sent_delta">> \in DOMAIN mx

\* C11.  The queries that depend on the tracked entities are gated on the
\* tracked sets: the WAL delta query is issued only when the tracked standby
\* set is not empty, the WAL lag query only when moreover the cached server
\* version is at least 100000, and the three database queries only when the
\* tracked database set is not empty.  A cycle in which nothing fails issues
\* exactly the queries whose gate is open, so a version below the threshold
\* skips the lag query without an error.
C11_EntityGates ==
    Ran =>
        /\ "standby_delta" \in Range(calls) => Len(standbyApps) > 0
        /\ "standby_lag" \in Range(calls) =>
              (Len(standbyApps) > 0 /\ serverVersion >= 100000)
        /\ Range(calls) \cap {"db_stats", "db_conflicts", "db_locks"} # {} =>
              Len(databases) > 0
        /\ err = NoErr =>
              /\ "standby_delta" \in Range(calls) <=> Len(standbyApps) > 0
              /\ "standby_lag" \in Range(calls) <=>
                    (Len(standbyApps) > 0 /\ serverVersion >= 100000)
              /\ \A q \in {"db_stats", "db_conflicts", "db_locks"} :
                    q \in Range(calls) <=> Len(databases) > 0

\* A cycle with a tracked standby application and no tracked database, on a
\* server older than the threshold: the delta query alone was issued, and the
\* cycle returned no error.
C11_Witness ==
    /\ Ran /\ err = NoErr
    /\ serverVersion = 90600 /\ standbyApps = <<"a">> /\ databases = << >>
    /\ "standby_delta" \in Range(calls)
    /\ Range(calls) \cap {"standby_lag", "db_stats", "db_conflicts", "db_locks"} = {}

\* C12 (as claimed).  The message of the error a cycle returns identifies the
\* stage that failed: no other stage has the same message.
C12_StageIdentifyingError ==
    (Ran /\ err # NoErr) =>
        \A st \in Range(Stages) : ErrorOf(st) = err => st = Last(calls)

\* The ten relation kinds of pg_class, and the integer a cell stands for: its
\* text when that is a numeral, 0 when it is NULL or any other text.
KnownRelKinds == {"r", "i", "S", "t", "v", "m", "c", "f", "p", "I"}
IntOfCell(cell) ==
    IF cell.Valid /\ cell.String \in Numerals THEN IntOf(cell.String) ELSE 0
CatalogKey(kind, column) == <<"catalog_relkind_", kind, "_", column>>
RowsOfKind(kind) == {j \in 1..Len(server.catalog) : server.catalog[j].relkind = kind}
LastOf(S) == CHOOSE j \in S : \A k \in S : k <= j

\* C13.  After the catalog stage has succeeded the snapshot holds the count
\* key and the size key of each of the ten relation kinds, whatever rows the
\* query returned: a kind with no row reports 0 (so with no rows at all the
\* twenty keys are 0), a kind with a row reports the count and the size of its
\* row (of its last row, when it has several).
C13_RelKindSeeding ==
    (Ran /\ err = NoErr) =>
        /\ "catalog" \in Range(calls)
        /\ \A kind \in KnownRelKinds :
              /\ CatalogKey(kind, "count") \in DOMAIN mx
              /\ CatalogKey(kind, "size") \in DOMAIN mx
              /\ mx[CatalogKey(kind, "count")] =
                    IF RowsOfKind(kind) = {} THEN 0
                    ELSE IntOfCell(server.catalog[LastOf(RowsOfKind(kind))].count)
              /\ mx[CatalogKey(kind, "size")] =
                    IF RowsOfKind(kind) = {} THEN 0
                    ELSE IntOfCell(server.catalog[LastOf(RowsOfKind(kind))].size)

\* The catalog query returned no rows, and the twenty keys are in the
\* snapshot with the value 0.
C13_Witness ==
    /\ Ran /\ err = NoErr /\ "catalog" \in Range(calls)
    /\ server.catalog = << >>
    /\ \A kind \in KnownRelKinds :
          /\ CatalogKey(kind, "count") \in DOMAIN mx
          /\ CatalogKey(kind, "size") \in DOMAIN mx
          /\ mx[CatalogKey(kind, "count")] = 0
          /\ mx[CatalogKey(kind, "size")] = 0

\* The sum of the value cells of the first n rows of the server's WAL senders
\* whose application name is app.
RECURSIVE SumOfSenders(_, _)
SumOfSenders(app, n) ==
    IF n = 0 THEN 0
    ELSE SumOfSenders(app, n - 1)
         + (IF server.apps[n] = app THEN IntOfCell(ValueCell(server, n)) ELSE 0)
StandbyKey(app, column) == <<"repl_standby_app_", app, "_wal_", column>>
StandbyKeys(column) == {k \in DOMAIN mx : Len(k) = 4 /\ k[4] = column}

\* C14.  In the snapshot of every cycle, the first as well as the later ones,
\* the delta key and the lag key of a standby application hold the sum of the
\* parsed value column over the rows of that cycle's result with that
\* application name, and nothing of an earlier cycle; there is one such key for
\* each application of the result and no other.
C14_SummedPerCycle ==
    (Ran /\ err = NoErr) =>
        /\ "standby_delta" \in Range(calls) =>
              /\ StandbyKeys("sent_delta") =
                    {StandbyKey(app, "sent_delta") : app \in Range(server.apps)}
              /\ \A app \in Range(server.apps) :
                    mx[StandbyKey(app, "sent_delta")] = SumOfSenders(app, Len(server.apps))
        /\ "standby_lag" \in Range(calls) =>
              /\ StandbyKeys("write_lag") =
                    {StandbyKey(app, "write_lag") : app \in Range(server.apps)}
              /\ \A app \in Range(server.apps) :
                    mx[StandbyKey(app, "write_lag")] = SumOfSenders(app, Len(server.apps))

\* A later cycle, on the connection of an earlier one, summed the two rows of
\* one standby application: 7 + 3, not 3, and not more.
C14_Witness ==
    /\ Ran /\ err = NoErr /\ "open" \notin Range(calls)
    /\ server.apps = <<"a", "a">>
    /\ server.cells = <<NullString("7"), NullString("3")>>
    /\ "standby_lag" \in Range(calls)
    /\ mx[StandbyKey("a", "sent_delta")] = 10
    /\ mx[StandbyKey("a", "write_lag")] = 10

\* A cell whose text is not an integer: NULL, the empty text, any other text.
Malformed(cell) == ~cell.Valid \/ cell.String \notin Numerals
\* The keys of the row queries with one row: its value columns.
PlainKeys ==
    {<<"percent_towards_wraparound">>, <<"wal_recycled_files_count">>,
     <<"wal_written_files_count">>, <<"wal_archive_files_ready_count">>,
     <<"autovacuum_analyze">>}
SendersOf(app) == {i \in 1..Len(server.apps) : server.apps[i] = app}
\* The stages a cycle without failure runs after the metadata is fetched.
AfterMetadata ==
    {"connections", "checkpoints", "uptime", "txid", "wal_writes", "wal_files",
     "wal_archive", "catalog", "autovacuum"}
    \cup (IF Len(standbyApps) > 0 THEN {"standby_delta"} ELSE {})
    \cup (IF Len(standbyApps) > 0 /\ serverVersion >= LagMinVersion
          THEN {"standby_lag"} ELSE {})
    \cup (IF Len(databases) > 0 THEN {"db_stats", "db_conflicts", "db_locks"} ELSE {})

\* C15.  A value cell of a row query that is not an integer (NULL, empty, any
\* other text) gives the value 0 and no error: the cycle returns no error, has
\* run every stage after it, and the key is in the snapshot with the value 0
\* (for the replication keys, which are summed: when all the cells of the
\* application are malformed).
C15_MalformedIsZero ==
    Ran =>
        /\ err = NoErr /\ ~mxNil
        /\ AfterMetadata \subseteq Range(calls)
        /\ Malformed(ValueCell(server, 1)) =>
              \A k \in PlainKeys : k \in DOMAIN mx /\ mx[k] = 0
        /\ \A j \in 1..Len(server.catalog) :
              LET row == server.catalog[j]
              IN j = LastOf(RowsOfKind(row.relkind)) =>
                   /\ CatalogKey(row.relkind, "count") \in DOMAIN mx
                   /\ CatalogKey(row.relkind, "size") \in DOMAIN mx
                   /\ Malformed(row.count) => mx[CatalogKey(row.relkind, "count")] = 0
                   /\ Malformed(row.size) => mx[CatalogKey(row.relkind, "size")] = 0
        /\ \A app \in Range(server.apps) :
              (\A i \in SendersOf(app) : Malformed(ValueCell(server, i))) =>
                 /\ StandbyKey(app, "sent_delta") \in DOMAIN mx
                 /\ mx[StandbyKey(app, "sent_delta")] = 0
                 /\ "standby_lag" \in Range(calls) =>
                       /\ StandbyKey(app, "write_lag") \in DOMAIN mx
                       /\ mx[StandbyKey(app, "write_lag")] = 0

\* The one sender of a standby application answered a text that is not a
\* number: the cycle ran to its last stage and the keys are 0.
C15_Witness ==
    /\ Ran /\ err = NoErr
    /\ server.apps = <<"a">> /\ server.cells = <<NullString("x")>>
    /\ Last(calls) = "standby_lag"
    /\ mx[<<"percent_towards_wraparound">>] = 0
    /\ mx[StandbyKey("a", "sent_delta")] = 0
    /\ mx[StandbyKey("a", "write_lag")] = 0

\* The order of the stages, as claimed.
StageOrder ==
    <<"open", "version", "settings", "databases", "standby", "connections",
      "checkpoints", "uptime", "txid", "wal_writes", "wal_files",
      "wal_archive", "catalog", "autovacuum", "standby_delta", "standby_lag",
      "db_stats", "db_conflicts", "db_locks">>
CoreStages ==
    {"connections", "checkpoints", "uptime", "txid", "wal_writes", "wal_files",
     "wal_archive", "catalog", "autovacuum"}
IsPrefix(l, m) == Len(l) <= Len(m) /\ l = SubSeq(m, 1, Len(l))

\* C16.  The stages of a cycle run one after the other in one fixed order.
\* What a cycle calls is a prefix of the list, in that order, of the stages
\* that apply to it (open without a connection, version without a cached
\* version, a fetch whose window is stale, the nine core stages always, the
\* entity stages by their gates): the whole list when the cycle returns no
\* error, and the part up to the failing stage when it returns one.
C16_SequentialOrder ==
    [][LET applies ==
               (IF db = NilDB THEN {"open"} ELSE {})
               \cup (IF serverVersion = 0 THEN {"version"} ELSE {})
               \cup (IF Sub(clock', recheckSettingsTime) > recheckSettingsEvery
                     THEN {"settings"} ELSE {})
               \cup (IF Sub(clock', relistDatabaseTime) > relistDatabaseEvery
                     THEN {"databases"} ELSE {})
               \cup (IF Sub(clock', relistStandbyTime) > relistStandbyEvery
                     THEN {"standby"} ELSE {})
               \cup CoreStages
               \cup (IF Len(standbyApps') > 0 THEN {"standby_delta"} ELSE {})
               \cup (IF Len(standbyApps') > 0 /\ serverVersion' >= 100000
                     THEN {"standby_lag"} ELSE {})
               \cup (IF Len(databases') > 0
                     THEN {"db_stats", "db_conflicts", "db_locks"} ELSE {})
           due == SelectSeq(StageOrder, LAMBDA st : st \in applies)
       IN /\ calls' # << >>
          /\ IsPrefix(calls', due)
          /\ err' = NoErr => (calls' = due /\ CoreStages \subseteq Range(calls'))
          /\ err' # NoErr =>
                \/ err' = ErrorOf(Last(calls'))
                \/ Last(calls') = "open" /\ err' = ErrorOf("ping")
      ]_vars

\* A first cycle ran the nineteen stages, in order.
C16_Witness ==
    err = NoErr /\ calls = StageOrder

\* C17 (as claimed).  Within the diff of one fetched standby list against the
\* tracked set: Added is notified for the names of the list that are not
\* tracked, in the order of the list and once each, then Removed for the
\* tracked names that are not in the list, and nothing else.  (A step that
\* leaves the server as it is is a cycle.)
C17_DiffNotifications ==
    [][(server' = server /\ fetched' # << >>) =>
          LET new == fetched'[1]
              old == Range(standbyApps)
              adds == SelectSeq(new, LAMBDA a : a \notin old)
              removes == old \ Range(new)
              n == Len(adds)
          IN /\ Len(notified') = n + Cardinality(removes)
             /\ \A i \in 1..n : notified'[i] = Added(adds[i])
             /\ {notified'[i] : i \in (n + 1)..Len(notified')}
                   = {Removed(a) : a \in removes}
      ]_vars

\* The names that have been Added and not Removed since, after the
\* notifications of log reach the set S; ok: no name of S was Added again, and
\* no name outside it was Removed.
RECURSIVE Replay(_, _)
Replay(S, log) ==
    IF log = << >> THEN [ok |-> TRUE, set |-> S]
    ELSE LET app == Head(log)[2]
         IN IF Head(log)[1] = "Added"
            THEN IF app \in S THEN [ok |-> FALSE, set |-> S]
                 ELSE Replay(S \cup {app}, Tail(log))
            ELSE IF app \notin S THEN [ok |-> FALSE, set |-> S]
                 ELSE Replay(S \ {app}, Tail(log))

\* C18.  The standby applications that have been Added and not Removed since
\* are the tracked standby set: the notifications of every cycle lead from
\* the tracked set before it to the tracked set after it, Added only for a
\* name that is not in the set and Removed only for a name that is in it; and
\* the applications that have charts are the tracked ones.
C18_NotificationBalance ==
    [][/\ server' = server =>
            LET r == Replay(Range(standbyApps), notified')
            IN r.ok /\ r.set = Range(standbyApps')
       /\ charts' = Range(standbyApps')
      ]_vars

\* A cycle replaced the tracked application a by b: Added(b), Removed(a).
C18_Witness ==
    /\ notified = <<Added("b"), Removed("a")>>
    /\ standbyApps = <<"b">> /\ charts = {"b"}

\* C19.  What a cycle that fails early leaves unchanged.  Failing at the
\* open, the ping or the version query: the cached version, the three refresh
\* timestamps, maxConnections and both tracked sets.  Failing at the settings
\* fetch: the timestamps of the database list and the standby list and both
\* tracked sets.  Failing at the database list fetch: the timestamp of the
\* standby list and the tracked standby set, and nothing is notified.
C19_EarlyFailureFrame ==
    [][/\ err' \in {ErrorOf("open"), ErrorOf("ping"), ErrorOf("version")} =>
            UNCHANGED <<serverVersion, recheckSettingsTime, relistDatabaseTime,
                        relistStandbyTime, maxConnections, databases, standbyApps>>
       /\ err' = ErrorOf("settings") =>
            UNCHANGED <<relistDatabaseTime, relistStandbyTime, databases, standbyApps>>
       /\ err' = ErrorOf("databases") =>
            /\ UNCHANGED <<relistStandbyTime, standbyApps>>
            /\ notified' = << >> /\ charts' = charts
      ]_vars

\* A later cycle failed at the database list fetch when the three windows were
\* stale: the standby list was not fetched and the tracked sets stand.
C19_Witness ==
    /\ err = ErrorOf("databases")
    /\ clock = 2 /\ recheckSettingsTime = 2 /\ relistDatabaseTime = 2
    /\ relistStandbyTime = 0
    /\ standbyApps = <<"a">> /\ databases = <<"db1">>

====
